---- MODULE Spec2Model ----
(***************************************************************************)
(* Commission tracker (backend/models.py, backend/app.py).                 *)
(*                                                                         *)
(* Numbers.  The program computes in Python floats.  The model computes    *)
(* in exact integers: a fee is a whole number of fee units, a rate is a    *)
(* whole number of percent points (0.15 is written 15), and a commission   *)
(* is fee * rate, so it is carried in hundredths of a fee unit.  Rounding  *)
(* of binary floating point is outside the model.                          *)
(***************************************************************************)
EXTENDS Integers, Sequences, FiniteSets, TLC

VARIABLES
    employees,    \* Employee table: id -> row
    placements,   \* Placement table: id -> row
    earnings,     \* Earning table: id -> row
    next_id,      \* primary keys the database hands out next, per table
    sessions,     \* create_placement requests in flight (concurrent runs)
    response      \* what the last finished handler returned

vars == <<employees, placements, earnings, next_id, sessions, response>>

-----------------------------------------------------------------------------
(* Bounds of the model *)

MaxEmployees == 2
MaxPlacements == 1
MaxTiers == 2
MaxFee == 5
MaxIter == 4
NumRequests == 2

(* Python's None, for an absent cap and for a primary key not yet assigned *)
None == -1

Min(a, b) == IF a <= b THEN a ELSE b

-----------------------------------------------------------------------------
(* Inputs *)

Thresholds == {2, 4}
TierRates == {15, 30}
BaseRates == {25}
Caps == {None, 20}

Tier == [threshold : Thresholds, rate : TierRates]

TierLists == UNION {[1..n -> Tier] : n \in 0..MaxTiers}

(* every commission structure the engine is tried on *)
AllStructures == [base_rate : BaseRates, tiers : TierLists, cap : Caps]

(* the structures requests carry in the multi-employee runs *)
RequestStructures ==
    { [base_rate |-> 10, tiers |-> <<>>, cap |-> None],
      [base_rate |-> 25, tiers |-> <<[threshold |-> 4, rate |-> 30],
                                     [threshold |-> 2, rate |-> 15]>>, cap |-> 20] }

Salaries == {-10, 20, 30}
FeePercentages == {10}
PreviewFees == (-1)..MaxFee

-----------------------------------------------------------------------------
(* Employee.calculate_current_rate_based_on_fees and                       *)
(* Employee.calculate_commission_based_on_fees                             *)

(* sorted(..., key=threshold) is stable: a tier goes after every tier      *)
(* already placed whose threshold is less than or equal to its own         *)
RECURSIVE InsertTier(_, _)
InsertTier(tier, s) ==
    IF s = <<>> THEN <<tier>>
    ELSE IF Head(s).threshold <= tier.threshold
         THEN <<Head(s)>> \o InsertTier(tier, Tail(s))
         ELSE <<tier>> \o s

RECURSIVE sorted(_)
sorted(tiers) ==
    IF tiers = <<>> THEN <<>>
    ELSE InsertTier(tiers[Len(tiers)], sorted(SubSeq(tiers, 1, Len(tiers) - 1)))

(* for tier in tiers: if position >= tier['threshold']: rate = tier['rate'] *)
RECURSIVE ScanTiers_exclusive(_, _, _)
ScanTiers_exclusive(tiers, position, rate) ==
    IF tiers = <<>> THEN rate
    ELSE ScanTiers_exclusive(Tail(tiers), position,
                   IF position > Head(tiers).threshold THEN Head(tiers).rate ELSE rate)

RECURSIVE ScanTiers(_, _, _)
ScanTiers(tiers, position, rate) ==
    IF tiers = <<>> THEN rate
    ELSE ScanTiers(Tail(tiers), position,
                   IF position >= Head(tiers).threshold THEN Head(tiers).rate ELSE rate)

ApplyCap_ignored(rate, cap) == rate

ApplyCap(rate, cap) == IF cap # None THEN Min(rate, cap) ELSE rate

calculate_current_rate_based_on_fees(self) ==
    LET structure == self.commission_structure
        current_rate == ScanTiers(sorted(structure.tiers), self.cumulative_fees,
                                  structure.base_rate)
    IN  ApplyCap(current_rate, structure.cap)

(* the starting rate of the fee loop *)
StartingRate(tiers, base_rate, cap, current_fee_position) ==
    ApplyCap(ScanTiers(tiers, current_fee_position, base_rate), cap)

(* index of the first tier whose threshold is greater than the position,   *)
(* 0 when there is none (next_threshold is None)                           *)
NextTierIndex_inclusive(tiers, current_fee_position) ==
    LET later == {i \in 1..Len(tiers) : tiers[i].threshold >= current_fee_position}
    IN  IF later = {} THEN 0 ELSE CHOOSE i \in later : \A j \in later : i <= j

NextTierIndex(tiers, current_fee_position) ==
    LET later == {i \in 1..Len(tiers) : tiers[i].threshold > current_fee_position}
    IN  IF later = {} THEN 0 ELSE CHOOSE i \in later : \A j \in later : i <= j

EffectiveRate(current_rate, cap) ==
    IF cap # None THEN Min(current_rate, cap) ELSE current_rate

Segment(n, from, to, segment_fee, effective_rate) ==
    [segment |-> n,
     from_cumulative_fees |-> from,
     to_cumulative_fees |-> to,
     fee_amount |-> segment_fee,
     rate |-> effective_rate,
     commission |-> segment_fee * effective_rate]

(* the branch "this segment will reach the next threshold" *)
ReachThreshold_keeps_rate(st, next_threshold, next_rate, effective_rate, cap) ==
    LET segment_fee == next_threshold - st.current_fee_position
        seg == Segment(Len(st.breakdown) + 1, st.current_fee_position,
                       next_threshold, segment_fee, effective_rate)
    IN  [current_fee_position |-> next_threshold,
         remaining_fee |-> st.remaining_fee - segment_fee,
         current_rate |-> st.current_rate,
         total_commission |-> st.total_commission + seg.commission,
         breakdown |-> Append(st.breakdown, seg),
         iterations |-> st.iterations + 1]

ReachThreshold(st, next_threshold, next_rate, effective_rate, cap) ==
    LET segment_fee == next_threshold - st.current_fee_position
        seg == Segment(Len(st.breakdown) + 1, st.current_fee_position,
                       next_threshold, segment_fee, effective_rate)
    IN  [current_fee_position |-> next_threshold,
         remaining_fee |-> st.remaining_fee - segment_fee,
         current_rate |-> ApplyCap(next_rate, cap),
         total_commission |-> st.total_commission + seg.commission,
         breakdown |-> Append(st.breakdown, seg),
         iterations |-> st.iterations + 1]

(* the branches "remaining fee stays in current tier" and "no more         *)
(* thresholds"                                                             *)
StayInTier_same_position(st, effective_rate) ==
    LET segment_fee == st.remaining_fee
        seg == Segment(Len(st.breakdown) + 1, st.current_fee_position,
                       st.current_fee_position, segment_fee, effective_rate)
    IN  [current_fee_position |-> st.current_fee_position + segment_fee,
         remaining_fee |-> 0,
         current_rate |-> st.current_rate,
         total_commission |-> st.total_commission + seg.commission,
         breakdown |-> Append(st.breakdown, seg),
         iterations |-> st.iterations + 1]

StayInTier(st, effective_rate) ==
    LET segment_fee == st.remaining_fee
        seg == Segment(Len(st.breakdown) + 1, st.current_fee_position,
                       st.current_fee_position + segment_fee, segment_fee,
                       effective_rate)
    IN  [current_fee_position |-> st.current_fee_position + segment_fee,
         remaining_fee |-> 0,
         current_rate |-> st.current_rate,
         total_commission |-> st.total_commission + seg.commission,
         breakdown |-> Append(st.breakdown, seg),
         iterations |-> st.iterations + 1]

(* one iteration of "while remaining_fee > 0" *)
LoopBody(tiers, cap, st) ==
    LET i == NextTierIndex(tiers, st.current_fee_position)
        effective_rate == EffectiveRate(st.current_rate, cap)
    IN  IF i # 0
        THEN IF tiers[i].threshold - st.current_fee_position <= st.remaining_fee
             THEN ReachThreshold(st, tiers[i].threshold, tiers[i].rate,
                                 effective_rate, cap)
             ELSE StayInTier(st, effective_rate)
        ELSE StayInTier(st, effective_rate)

(* the loop, run for at most `fuel` iterations; a run that still has       *)
(* remaining_fee > 0 when the fuel is spent has not left the loop          *)
RECURSIVE ProcessFee(_, _, _, _)
ProcessFee(tiers, cap, st, fuel) ==
    IF ~(st.remaining_fee > 0) \/ fuel = 0 THEN st
    ELSE ProcessFee(tiers, cap, LoopBody(tiers, cap, st), fuel - 1)

RunLoop(self, fee_amount) ==
    LET structure == self.commission_structure
        tiers == sorted(structure.tiers)
        cap == structure.cap
    IN  ProcessFee(tiers, cap,
                   [current_fee_position |-> self.cumulative_fees,
                    remaining_fee |-> fee_amount,
                    current_rate |-> StartingRate(tiers, structure.base_rate, cap,
                                                  self.cumulative_fees),
                    total_commission |-> 0,
                    breakdown |-> <<>>,
                    iterations |-> 0],
                   MaxIter)

(* TRUE when the call returns *)
LoopExits(self, fee_amount) == ~(RunLoop(self, fee_amount).remaining_fee > 0)

NewRate(tiers, base_rate, cap, current_fee_position) ==
    ApplyCap(ScanTiers(tiers, current_fee_position, base_rate), cap)

calculate_commission_based_on_fees(self, fee_amount) ==
    LET structure == self.commission_structure
        st == RunLoop(self, fee_amount)
    IN  [total_commission |-> st.total_commission,
         breakdown |-> st.breakdown,
         cumulative_fees_before |-> self.cumulative_fees,
         cumulative_fees_after |-> st.current_fee_position,
         cumulative_commission_before |-> self.cumulative_commission,
         cumulative_commission_after |-> self.cumulative_commission + st.total_commission,
         new_rate |-> NewRate(sorted(structure.tiers), structure.base_rate,
                              structure.cap, st.current_fee_position)]

-----------------------------------------------------------------------------
(* The tables and the HTTP handlers of app.py *)

EmployeeIds == 1..MaxEmployees
PlacementIds == 1..(MaxPlacements + NumRequests)
Requests == 1..NumRequests

(* Employee(...): cumulative_fees and cumulative_commission default to 0.0 *)
Employee(commission_structure) ==
    [cumulative_fees |-> 0,
     cumulative_commission |-> 0,
     commission_structure |-> commission_structure]

EmptyResult ==
    [total_commission |-> 0,
     breakdown |-> <<>>,
     cumulative_fees_before |-> 0,
     cumulative_fees_after |-> 0,
     cumulative_commission_before |-> 0,
     cumulative_commission_after |-> 0,
     new_rate |-> 0]

(* a handler's answer: the route, the HTTP status (0 while the handler has *)
(* not returned) and the parts of the JSON body the properties read        *)
Response(op, status, employee_id, fee_amount, commission_result, current_rate) ==
    [op |-> op,
     status |-> status,
     employee_id |-> employee_id,
     fee_amount |-> fee_amount,
     commission_result |-> commission_result,
     current_rate |-> current_rate,
     reset_count |-> 0]

NoResponse == Response("none", 0, None, 0, EmptyResult, 0)

IdleSession ==
    [pc |-> "idle",
     employee_id |-> None,
     starting_salary |-> 0,
     fee_percentage |-> 0,
     fee_amount |-> 0,
     employee |-> Employee([base_rate |-> 0, tiers |-> <<>>, cap |-> None]),
     commission_result |-> EmptyResult]

(* fee_amount = float(starting_salary) * (float(fee_percentage) / 100) *)
FeeAmount(starting_salary, fee_percentage) == (starting_salary * fee_percentage) \div 100

(* the Placement row create_placement builds *)
Placement(employee_id, starting_salary, fee_percentage, commission_result) ==
    [starting_salary |-> starting_salary,
     fee_percentage |-> fee_percentage,
     employee_id |-> employee_id,
     commission_amount |-> commission_result.total_commission,
     commission_rate_used |-> commission_result.new_rate,
     commission_breakdown |-> commission_result.breakdown]

(* the Earning row create_placement builds; placement_id is placement.id   *)
(* as read before the session is flushed                                   *)
Earning(employee_id, placement_id, commission_result) ==
    [amount |-> commission_result.total_commission,
     placement_id |-> placement_id,
     employee_id |-> employee_id]

(* placement.id between db.session.add(placement) and the flush that      *)
(* db.session.commit() starts: the INSERT has not run, no key is assigned  *)
PendingId == None

(* employee.cumulative_fees += fee_amount;                                 *)
(* employee.cumulative_commission += total_commission; commit.             *)
(* `loaded` is the row as the request's session read it, `row` the row in  *)
(* the database at commit.  The UPDATE carries the values computed from    *)
(* `loaded`, for the columns whose value changed.                          *)
CommitEmployee_increment(row, loaded, fee_amount, total_commission) ==
    [row EXCEPT !.cumulative_fees = @ + fee_amount,
                !.cumulative_commission = @ + total_commission]

CommitEmployee(row, loaded, fee_amount, total_commission) ==
    [row EXCEPT
       !.cumulative_fees =
           IF loaded.cumulative_fees + fee_amount # loaded.cumulative_fees
           THEN loaded.cumulative_fees + fee_amount ELSE @,
       !.cumulative_commission =
           IF loaded.cumulative_commission + total_commission
                  # loaded.cumulative_commission
           THEN loaded.cumulative_commission + total_commission ELSE @]

(* db.session.add(placement); db.session.add(earning); commit *)
Persist(employee_id, loaded, starting_salary, fee_percentage, commission_result) ==
    LET fee_amount == FeeAmount(starting_salary, fee_percentage)
        placement == Placement(employee_id, starting_salary, fee_percentage,
                               commission_result)
        \* placement.id is still None when the Earning is built
        earning == Earning(employee_id, PendingId, commission_result)
    IN  /\ placements' = [p \in DOMAIN placements \cup {next_id.placement} |->
                            IF p = next_id.placement THEN placement ELSE placements[p]]
        /\ earnings' = [e \in DOMAIN earnings \cup {next_id.earning} |->
                            IF e = next_id.earning THEN earning ELSE earnings[e]]
        /\ next_id' = [next_id EXCEPT !.placement = @ + 1, !.earning = @ + 1]
        /\ employees' = [employees EXCEPT ![employee_id] =
                            CommitEmployee(@, loaded, fee_amount,
                                           commission_result.total_commission)]

create_employee ==
    \E has_structure \in BOOLEAN, commission_structure \in RequestStructures :
        /\ next_id.employee <= MaxEmployees
        /\ IF ~has_structure
           THEN /\ response' = Response("create_employee", 400, None, 0, EmptyResult, 0)
                /\ UNCHANGED <<employees, next_id>>
           ELSE /\ employees' = [e \in DOMAIN employees \cup {next_id.employee} |->
                                   IF e = next_id.employee
                                   THEN Employee(commission_structure)
                                   ELSE employees[e]]
                /\ next_id' = [next_id EXCEPT !.employee = @ + 1]
                /\ response' = Response("create_employee", 201, next_id.employee, 0,
                                        EmptyResult, 0)
        /\ UNCHANGED <<placements, earnings, sessions>>

update_employee ==
    \E id \in EmployeeIds, has_structure \in BOOLEAN,
       commission_structure \in RequestStructures :
        /\ IF id \notin DOMAIN employees
           THEN /\ response' = Response("update_employee", 404, id, 0, EmptyResult, 0)
                /\ UNCHANGED employees
           ELSE /\ employees' = [employees EXCEPT ![id].commission_structure =
                                   IF has_structure THEN commission_structure ELSE @]
                /\ response' = Response("update_employee", 200, id, 0, EmptyResult, 0)
        /\ UNCHANGED <<placements, earnings, next_id, sessions>>

delete_placement ==
    \E id \in PlacementIds :
        /\ IF id \notin DOMAIN placements
           THEN /\ response' = Response("delete_placement", 404, None, 0, EmptyResult, 0)
                /\ UNCHANGED <<placements, earnings>>
           ELSE /\ placements' = [p \in DOMAIN placements \ {id} |-> placements[p]]
                /\ earnings' = [e \in DOMAIN earnings |->
                                  IF earnings[e].placement_id = id
                                  THEN [earnings[e] EXCEPT !.placement_id = None]
                                  ELSE earnings[e]]
                /\ response' = Response("delete_placement", 200,
                                        placements[id].employee_id, 0, EmptyResult, 0)
        /\ UNCHANGED <<employees, next_id, sessions>>

(* create_placement handled from its first line to its return with no     *)
(* other request in between                                                *)
create_placement ==
    \E employee_id \in EmployeeIds, starting_salary \in Salaries,
       fee_percentage \in FeePercentages :
        LET fee_amount == FeeAmount(starting_salary, fee_percentage)
        IN  /\ next_id.placement <= MaxPlacements
            /\ IF employee_id \notin DOMAIN employees
               THEN /\ response' = Response("create_placement", 404, employee_id,
                                            fee_amount, EmptyResult, 0)
                    /\ UNCHANGED <<employees, placements, earnings, next_id>>
               ELSE IF ~LoopExits(employees[employee_id], fee_amount)
               THEN /\ response' = Response("create_placement", 0, employee_id,
                                            fee_amount, EmptyResult, 0)
                    /\ UNCHANGED <<employees, placements, earnings, next_id>>
               ELSE LET employee == employees[employee_id]
                        commission_result ==
                            calculate_commission_based_on_fees(employee, fee_amount)
                    IN  /\ Persist(employee_id, employee, starting_salary,
                                   fee_percentage, commission_result)
                        /\ response' = Response("create_placement", 201, employee_id,
                                                fee_amount, commission_result,
                                                commission_result.new_rate)
            /\ UNCHANGED sessions

(* employee.cumulative_fees = 0.0; employee.cumulative_commission = 0.0 *)
ResetEmployee_fees_only(employee) == [employee EXCEPT !.cumulative_fees = 0]

ResetEmployee(employee) ==
    [employee EXCEPT !.cumulative_fees = 0, !.cumulative_commission = 0]

reset_ytd_totals ==
    \E database_ok \in BOOLEAN :
        /\ IF database_ok
           THEN /\ employees' = [e \in DOMAIN employees |-> ResetEmployee(employees[e])]
                /\ response' = Response("reset_ytd_totals", 200, None, 0, EmptyResult, 0)
           ELSE \* except Exception: db.session.rollback()
                /\ UNCHANGED employees
                /\ response' = Response("reset_ytd_totals", 500, None, 0, EmptyResult, 0)
        /\ UNCHANGED <<placements, earnings, next_id, sessions>>

calculate_commission_preview ==
    \E id \in EmployeeIds, fee_amount \in PreviewFees :
        /\ IF id \notin DOMAIN employees
           THEN response' = Response("calculate_commission_preview", 404, id,
                                     fee_amount, EmptyResult, 0)
           ELSE IF ~LoopExits(employees[id], fee_amount)
           THEN response' = Response("calculate_commission_preview", 0, id,
                                     fee_amount, EmptyResult, 0)
           ELSE response' = Response("calculate_commission_preview", 200, id, fee_amount,
                                calculate_commission_based_on_fees(employees[id], fee_amount),
                                calculate_current_rate_based_on_fees(employees[id]))
        /\ UNCHANGED <<employees, placements, earnings, next_id, sessions>>

-----------------------------------------------------------------------------
(* create_placement as two requests at once see it: the handler up to the  *)
(* commission calculation, then the rest up to the commit                  *)

create_placement_begin(r) ==
    \E employee_id \in EmployeeIds, starting_salary \in Salaries,
       fee_percentage \in FeePercentages :
        LET fee_amount == FeeAmount(starting_salary, fee_percentage)
        IN  /\ sessions[r].pc = "idle"
            /\ IF employee_id \notin DOMAIN employees
               THEN /\ sessions' = [sessions EXCEPT ![r] =
                                      [IdleSession EXCEPT !.pc = "not_found",
                                                          !.employee_id = employee_id,
                                                          !.fee_amount = fee_amount]]
                    /\ response' = Response("create_placement", 404, employee_id,
                                            fee_amount, EmptyResult, 0)
               ELSE /\ sessions' = [sessions EXCEPT ![r] =
                          [pc |-> "computed",
                           employee_id |-> employee_id,
                           starting_salary |-> starting_salary,
                           fee_percentage |-> fee_percentage,
                           fee_amount |-> fee_amount,
                           employee |-> employees[employee_id],
                           commission_result |->
                               calculate_commission_based_on_fees(
                                   employees[employee_id], fee_amount)]]
                    /\ UNCHANGED response
            /\ UNCHANGED <<employees, placements, earnings, next_id>>

create_placement_commit(r) ==
    LET s == sessions[r]
    IN  /\ s.pc = "computed"
        /\ Persist(s.employee_id, s.employee, s.starting_salary, s.fee_percentage,
                   s.commission_result)
        /\ sessions' = [sessions EXCEPT ![r].pc = "done"]
        /\ response' = Response("create_placement", 201, s.employee_id, s.fee_amount,
                                s.commission_result, s.commission_result.new_rate)

-----------------------------------------------------------------------------
(* Specifications *)

EmptyTable == [x \in {} |-> 0]

(* the store as db.create_all() leaves it *)
Init ==
    /\ employees = EmptyTable
    /\ placements = EmptyTable
    /\ earnings = EmptyTable
    /\ next_id = [employee |-> 1, placement |-> 1, earning |-> 1]
    /\ sessions = [r \in Requests |-> IdleSession]
    /\ response = NoResponse

Next ==
    \/ create_employee
    \/ update_employee
    \/ create_placement
    \/ delete_placement
    \/ reset_ytd_totals

(* the handlers that write the store, one request at a time               *)
(* (calculate_commission_preview writes nothing; EngineSpec runs it)      *)
Spec == Init /\ [][Next]_vars

(* one employee, just created with any commission structure *)
EngineInit ==
    /\ \E commission_structure \in AllStructures :
           employees = [e \in {1} |-> Employee(commission_structure)]
    /\ placements = EmptyTable
    /\ earnings = EmptyTable
    /\ next_id = [employee |-> 2, placement |-> 1, earning |-> 1]
    /\ sessions = [r \in Requests |-> IdleSession]
    /\ response = NoResponse

EngineNext ==
    \/ create_placement
    \/ calculate_commission_preview

(* the commission engine on every structure, through the two handlers that *)
(* call it                                                                 *)
EngineSpec == EngineInit /\ [][EngineNext]_vars

ConcNext ==
    \/ create_employee
    \/ \E r \in Requests : create_placement_begin(r)
    \/ \E r \in Requests : create_placement_commit(r)

(* create_placement requests served at the same time *)
ConcSpec == Init /\ [][ConcNext]_vars

-----------------------------------------------------------------------------
(* Properties of the commission engine (EngineSpec) *)

RECURSIVE SumFeeAmount(_)
SumFeeAmount(breakdown) ==
    IF breakdown = <<>> THEN 0
    ELSE Head(breakdown).fee_amount + SumFeeAmount(Tail(breakdown))

RECURSIVE SumCommission(_)
SumCommission(breakdown) ==
    IF breakdown = <<>> THEN 0
    ELSE Head(breakdown).commission + SumCommission(Tail(breakdown))

(* the last handler called the engine on an employee it found *)
EngineCalled ==
    /\ response.op \in {"create_placement", "calculate_commission_preview"}
    /\ response.status # 404

(* ... and the engine returned *)
Calculated == EngineCalled /\ response.status \in {200, 201}

(* the commission structure the last handler passed to the engine *)
UsedStructure == employees[response.employee_id].commission_structure

(* the employee as the engine saw it *)
EmployeeBefore ==
    [cumulative_fees |-> response.commission_result.cumulative_fees_before,
     cumulative_commission |-> response.commission_result.cumulative_commission_before,
     commission_structure |-> UsedStructure]

EmployeeAt(position) ==
    [cumulative_fees |-> position,
     cumulative_commission |-> 0,
     commission_structure |-> UsedStructure]

DistinctThresholds(tiers) ==
    \A i, j \in 1..Len(tiers) : i # j => tiers[i].threshold # tiers[j].threshold

(* C1: for every input, fee amount included, the segments' fee_amount sum  *)
(* to the fee amount passed in and their commissions sum to                *)
(* total_commission.                                                       *)
SegmentSumLaw ==
    Calculated =>
        /\ SumFeeAmount(response.commission_result.breakdown) = response.fee_amount
        /\ SumCommission(response.commission_result.breakdown)
               = response.commission_result.total_commission

(* the same for fee amounts that are not negative *)
SegmentSumLawNonNegative == response.fee_amount >= 0 => SegmentSumLaw

(* C2: a non-empty breakdown starts at cumulative_fees_before, each        *)
(* segment ends where the next one starts, the last one ends at            *)
(* cumulative_fees_after, and every segment has to - from = fee_amount.    *)
Contiguity ==
    LET result == response.commission_result
        breakdown == result.breakdown
        n == Len(breakdown)
    IN  (Calculated /\ n > 0) =>
            /\ breakdown[1].from_cumulative_fees = result.cumulative_fees_before
            /\ \A i \in 1..(n - 1) :
                   breakdown[i].to_cumulative_fees = breakdown[i + 1].from_cumulative_fees
            /\ breakdown[n].to_cumulative_fees = result.cumulative_fees_after
            /\ \A i \in 1..n :
                   breakdown[i].to_cumulative_fees - breakdown[i].from_cumulative_fees
                       = breakdown[i].fee_amount

(* a fee that crossed two thresholds and went on: three segments *)
ContiguityWitness ==
    /\ Calculated
    /\ Len(response.commission_result.breakdown) = 3

Previewed ==
    /\ response.op = "calculate_commission_preview"
    /\ response.status = 200

(* the tiers whose threshold the cumulative fees have reached *)
ReachedTiers(tiers, cumulative_fees) ==
    {i \in 1..Len(tiers) : tiers[i].threshold <= cumulative_fees}

(* those of them with the largest threshold *)
TopTiers(tiers, cumulative_fees) ==
    LET reached == ReachedTiers(tiers, cumulative_fees)
    IN  {i \in reached : \A j \in reached : tiers[j].threshold <= tiers[i].threshold}

Clamp(rate, cap) == IF cap = None \/ rate <= cap THEN rate ELSE cap

Reorderings(tiers) ==
    {[i \in 1..Len(tiers) |-> tiers[f[i]]] : f \in Permutations(1..Len(tiers))}

RateWithTiers(tiers) ==
    calculate_current_rate_based_on_fees(
        [employees[response.employee_id] EXCEPT !.commission_structure.tiers = tiers])

SegmentRateIsCurrentRate ==
    Calculated =>
        \A i \in 1..Len(response.commission_result.breakdown) :
            LET seg == response.commission_result.breakdown[i]
            IN  seg.rate = calculate_current_rate_based_on_fees(
                               EmployeeAt(seg.from_cumulative_fees))

(* the same for structures whose thresholds are distinct *)
SegmentRateIsCurrentRateDistinct ==
    (Calculated /\ DistinctThresholds(UsedStructure.tiers)) => SegmentRateIsCurrentRate

(* C5: with a cap, every segment's rate, new_rate and the current rate are *)
(* at most cap.                                                            *)
CapEnforced ==
    (Calculated /\ UsedStructure.cap # None) =>
        /\ \A i \in 1..Len(response.commission_result.breakdown) :
               response.commission_result.breakdown[i].rate <= UsedStructure.cap
        /\ response.commission_result.new_rate <= UsedStructure.cap
        /\ response.current_rate <= UsedStructure.cap
        /\ calculate_current_rate_based_on_fees(employees[response.employee_id])
               <= UsedStructure.cap

(* a capped structure, a fee across two thresholds, the base rate and the  *)
(* last tier's rate both above the cap                                     *)
CapEnforcedWitness ==
    /\ Calculated
    /\ UsedStructure.cap # None
    /\ UsedStructure.base_rate > UsedStructure.cap
    /\ Len(response.commission_result.breakdown) = 3
    /\ \E i \in 1..Len(UsedStructure.tiers) :
           /\ UsedStructure.tiers[i].rate > UsedStructure.cap
           /\ UsedStructure.tiers[i].threshold
                  = response.commission_result.breakdown[3].from_cumulative_fees
    /\ response.commission_result.breakdown[3].rate = UsedStructure.cap

(* C10: for fee_amount > 0 the loop ends, every iteration emits one        *)
(* segment with fee_amount > 0, and there is at most one segment more than *)
(* there are distinct thresholds above cumulative_fees_before.             *)
ForwardProgress ==
    (EngineCalled /\ response.fee_amount > 0) =>
        /\ Calculated
        /\ LET result == response.commission_result
               thresholds_ahead ==
                   {UsedStructure.tiers[i].threshold : i \in
                       {j \in 1..Len(UsedStructure.tiers) :
                           UsedStructure.tiers[j].threshold > result.cumulative_fees_before}}
           IN  /\ Len(result.breakdown) >= 1
               /\ \A i \in 1..Len(result.breakdown) :
                      /\ result.breakdown[i].fee_amount > 0
                      /\ result.breakdown[i].segment = i
               /\ RunLoop(EmployeeBefore, response.fee_amount).iterations
                      = Len(result.breakdown)
               /\ Len(result.breakdown) <= Cardinality(thresholds_ahead) + 1

(* a fee that starts exactly on a threshold and crosses the next one *)
ForwardProgressWitness ==
    /\ Calculated
    /\ response.fee_amount > 0
    /\ \E i \in 1..Len(UsedStructure.tiers) :
           UsedStructure.tiers[i].threshold
               = response.commission_result.cumulative_fees_before
    /\ Len(response.commission_result.breakdown) = 2

(* the fee amounts of the placements stored for employee e, added up *)
RECURSIVE SumPlacedFees(_, _)
SumPlacedFees(e, ids) ==
    IF ids = {} THEN 0
    ELSE LET p == CHOOSE x \in ids : TRUE
         IN  (IF placements[p].employee_id = e
              THEN FeeAmount(placements[p].starting_salary, placements[p].fee_percentage)
              ELSE 0)
             + SumPlacedFees(e, ids \ {p})

PlacedFees(e) == SumPlacedFees(e, DOMAIN placements)

NoNegativePlacement(e) ==
    \A p \in DOMAIN placements :
        placements[p].employee_id = e =>
            FeeAmount(placements[p].starting_salary, placements[p].fee_percentage) >= 0

(* the employee after create_placement has priced f1 and written it back *)
AfterPlacement(employee, f1) ==
    CommitEmployee(employee, employee, f1,
                   calculate_commission_based_on_fees(employee, f1).total_commission)

(* C11: for distinct thresholds and fees f1, f2 >= 0, pricing f1 + f2 in    *)
(* one fee event gives the total_commission, cumulative_fees_after and     *)
(* new_rate of pricing f1 and then f2; so the cumulative commission of an  *)
(* employee whose placements all have fees >= 0 is the commission of one   *)
(* fee event of their sum, priced from zero.                               *)
SplitAdditivity ==
    (Calculated /\ response.fee_amount >= 0 /\ DistinctThresholds(UsedStructure.tiers)) =>
        LET e == response.employee_id
            whole == response.commission_result
        IN  /\ \A f1 \in 0..response.fee_amount :
                   LET first == calculate_commission_based_on_fees(EmployeeBefore, f1)
                       second == calculate_commission_based_on_fees(
                                     AfterPlacement(EmployeeBefore, f1),
                                     response.fee_amount - f1)
                   IN  /\ whole.total_commission
                              = first.total_commission + second.total_commission
                       /\ whole.cumulative_fees_after = second.cumulative_fees_after
                       /\ whole.cumulative_commission_after
                              = second.cumulative_commission_after
                       /\ whole.new_rate = second.new_rate
            /\ NoNegativePlacement(e) =>
                   LET sum == PlacedFees(e)
                                 + (IF Previewed THEN response.fee_amount ELSE 0)
                       at_once == calculate_commission_based_on_fees(
                                      Employee(UsedStructure), sum)
                   IN  /\ whole.cumulative_fees_after = sum
                       /\ whole.cumulative_commission_after = at_once.total_commission
                       /\ whole.new_rate = at_once.new_rate
                       /\ ~Previewed =>
                              /\ employees[e].cumulative_fees = sum
                              /\ employees[e].cumulative_commission
                                     = at_once.total_commission

(* a placement that stopped short of a threshold, then a fee priced from   *)
(* there across two thresholds of a structure with distinct thresholds     *)
SplitAdditivityWitness ==
    /\ Previewed
    /\ DistinctThresholds(UsedStructure.tiers)
    /\ Len(UsedStructure.tiers) = 2
    /\ NoNegativePlacement(response.employee_id)
    /\ PlacedFees(response.employee_id) > 0
    /\ Len(response.commission_result.breakdown) = 2
    /\ response.commission_result.breakdown[1].rate
           # response.commission_result.breakdown[2].rate
    /\ \E i \in 1..2 :
           UsedStructure.tiers[i].threshold < PlacedFees(response.employee_id)

-----------------------------------------------------------------------------
(* Properties of the handlers (Spec) *)

(* C6: create_placement with a negative fee amount answers with an error   *)
(* and leaves the employee's cumulative totals as they were.               *)
NegativeFeeRejected ==
    [][(/\ response'.op = "create_placement"
        /\ response'.status # 404
        /\ response'.fee_amount < 0)
       => (/\ response'.status = 400
           /\ employees' = employees)]_vars

(* C7: no handler other than reset_ytd_totals lowers an employee's         *)
(* cumulative_fees or cumulative_commission.                               *)
CumulativeTotalsMonotonic ==
    [][response'.op # "reset_ytd_totals" =>
           \A e \in DOMAIN employees \cap DOMAIN employees' :
               /\ employees'[e].cumulative_fees >= employees[e].cumulative_fees
               /\ employees'[e].cumulative_commission
                      >= employees[e].cumulative_commission]_vars

(* the same for the requests whose fee amount is not negative *)
CumulativeTotalsMonotonicNonNegative ==
    [][(response'.op # "reset_ytd_totals" /\ response'.fee_amount >= 0) =>
           \A e \in DOMAIN employees \cap DOMAIN employees' :
               /\ employees'[e].cumulative_fees >= employees[e].cumulative_fees
               /\ employees'[e].cumulative_commission
                      >= employees[e].cumulative_commission]_vars

(* C8: a reset that succeeds leaves cumulative_fees = 0 and                *)
(* cumulative_commission = 0 for every employee, and the engine then       *)
(* answers as for a newly created employee with the same structure; a      *)
(* reset that fails changes no employee.                                   *)
ResetAllOrNone ==
    /\ [][response'.op = "reset_ytd_totals" =>
              \/ /\ response'.status = 200
                 /\ DOMAIN employees' = DOMAIN employees
                 /\ \A e \in DOMAIN employees' :
                        /\ employees'[e].cumulative_fees = 0
                        /\ employees'[e].cumulative_commission = 0
                        /\ employees'[e].commission_structure
                               = employees[e].commission_structure
              \/ /\ response'.status = 500
                 /\ employees' = employees]_vars
    /\ []((response.op = "reset_ytd_totals" /\ response.status = 200) =>
              \A e \in DOMAIN employees : \A fee_amount \in PreviewFees :
                  calculate_commission_based_on_fees(employees[e], fee_amount)
                      = calculate_commission_based_on_fees(
                            Employee(employees[e].commission_structure), fee_amount))

(* a successful reset of two employees, after a placement that earned a    *)
(* commission                                                              *)
ResetWitness ==
    /\ response.op = "reset_ytd_totals"
    /\ response.status = 200
    /\ Cardinality(DOMAIN employees) >= 2
    /\ \E p \in DOMAIN placements : placements[p].commission_amount > 0
    /\ \A e \in DOMAIN employees :
           employees[e].cumulative_fees = 0 /\ employees[e].cumulative_commission = 0

(* a create_placement step that answered 201 *)
PlacementCreated ==
    /\ response'.op = "create_placement"
    /\ response'.status = 201

(* C12: every successful create_placement stores one Placement and one    *)
(* Earning for the employee, and the Earning's placement_id is the id of   *)
(* that Placement.                                                         *)
EarningLinked ==
    [][PlacementCreated =>
           \E p \in DOMAIN placements' \ DOMAIN placements,
              en \in DOMAIN earnings' \ DOMAIN earnings :
               /\ DOMAIN placements' = DOMAIN placements \cup {p}
               /\ DOMAIN earnings' = DOMAIN earnings \cup {en}
               /\ placements'[p].employee_id = response'.employee_id
               /\ earnings'[en].employee_id = response'.employee_id
               /\ earnings'[en].placement_id = p]_vars

(* the same without the link: one Placement and one Earning are stored,    *)
(* for the employee and with the commission of the request                 *)
EarningStored ==
    [][PlacementCreated =>
           \E p \in DOMAIN placements' \ DOMAIN placements,
              en \in DOMAIN earnings' \ DOMAIN earnings :
               /\ DOMAIN placements' = DOMAIN placements \cup {p}
               /\ DOMAIN earnings' = DOMAIN earnings \cup {en}
               /\ placements'[p].employee_id = response'.employee_id
               /\ earnings'[en].employee_id = response'.employee_id
               /\ earnings'[en].amount = response'.commission_result.total_commission
               /\ placements'[p].commission_amount = earnings'[en].amount
               /\ earnings'[en].placement_id = None]_vars

-----------------------------------------------------------------------------
(* Properties of concurrent create_placement requests (ConcSpec) *)

(* r1 and r2 are the only requests that have committed for their employee, *)
(* both with a positive fee, and both read the same cumulative fees        *)
SameBefore(r1, r2) ==
    /\ r1 # r2
    /\ sessions[r1].pc = "done"
    /\ sessions[r2].pc = "done"
    /\ sessions[r1].employee_id = sessions[r2].employee_id
    /\ sessions[r1].fee_amount > 0
    /\ sessions[r2].fee_amount > 0
    /\ sessions[r1].commission_result.cumulative_fees_before
           = sessions[r2].commission_result.cumulative_fees_before
    /\ \A r \in Requests \ {r1, r2} :
           sessions[r].pc = "done" => sessions[r].employee_id # sessions[r1].employee_id

(* C9: when two create_placement requests for one employee have read the   *)
(* same totals and both committed, one fee is lost: cumulative_fees is     *)
(* before + f1 or before + f2, less than before + f1 + f2, and both        *)
(* placements were priced from the same starting position.                 *)
LostUpdate ==
    \A r1, r2 \in Requests :
        SameBefore(r1, r2) =>
            LET before == sessions[r1].commission_result.cumulative_fees_before
                f1 == sessions[r1].fee_amount
                f2 == sessions[r2].fee_amount
                e == sessions[r1].employee_id
            IN  /\ employees[e].cumulative_fees \in {before + f1, before + f2}
                /\ employees[e].cumulative_fees < before + f1 + f2
                /\ sessions[r1].commission_result.breakdown[1].from_cumulative_fees = before
                /\ sessions[r2].commission_result.breakdown[1].from_cumulative_fees = before

(* two committed requests that read the same totals *)
LostUpdateWitness ==
    \E r1, r2 \in Requests :
        /\ SameBefore(r1, r2)
        /\ \E p1, p2 \in DOMAIN placements :
               /\ p1 # p2
               /\ placements[p1].employee_id = sessions[r1].employee_id
               /\ placements[p2].employee_id = sessions[r1].employee_id
        /\ employees[sessions[r1].employee_id].cumulative_fees
               < sessions[r1].commission_result.cumulative_fees_before
                     + sessions[r1].fee_amount + sessions[r2].fee_amount

====
